---- MODULE Spec2Model ----
(***************************************************************************)
(* Model of M5StickCPlus2.ino: setup() and the periodic loop() that reads  *)
(* the SHT3X / QMP6988 sensors and the battery, appends one sample to six  *)
(* Prometheus time series, sends the write request and resets the series.  *)
(* Program state: the globals of lines 29-51, the locals of loop() and the *)
(* position of the single thread of control (pc).  Variables marked        *)
(* "history" only record what the code did; they never influence it.       *)
(***************************************************************************)
EXTENDS Integers, Sequences, FiniteSets, TLC

\* ---------------------------------------------------------------- bounds
MaxTime == 2        \* timestamps returned by getTimeMillis(): 1..MaxTime
MaxFail == 3        \* longest run of consecutive failed sends explored

\* ------------------------------------------------------- program constants
SeriesCapacity == 1         \* TimeSeries(1, ...), lines 46-51
ReqCapacity == 11           \* WriteRequest req(11, 2048), line 43
LowLimit == 950             \* line 132
HighLimit == 1200           \* line 133
NoResult == -1              \* res before client.send() has returned
NoRead == -1                \* history: no successful pressure read since boot

\* Registration order of the series, lines 109-114.
SeriesOrder ==
    << "m5stick_temp", "m5stick_hum", "m5stick_pressure",
       "m5stick_bat_volt", "m5stick_bat_current", "m5stick_bat_level" >>

SeriesNames == { SeriesOrder[i] : i \in 1..Len(SeriesOrder) }

\* ------------------------------------------------------------ input sets
Times == 1..MaxTime
\* qmp6988.calcPressure(), in Pa (the sensor's raw unit).
PressureReadings == { 0, 949, 950, 90000, 101500, 120000, 120001 }
\* sht30.cTemp in tenths of a degree, sht30.humidity in percent.
TempReadings == { 225 }
HumReadings == { 41 }
\* Battery voltage (mV), current (mA), level (%).
BatReadings == { [volt |-> 3850, current |-> -120, level |-> 76],
                 [volt |-> 4100, current |-> 0, level |-> 100] }
NoBat == [volt |-> 0, current |-> 0, level |-> 0]
\* PromClient::SendResult: 0 success, non-zero failure.
Results == 0..2

VARIABLES
    pc,                 \* position of the thread of control
    showDebug,          \* value of (LCD_SHOW_DEBUG_INFO == "1"), line 175
    temp, hum, pressure,        \* globals, lines 32-34
    upload_fail_count,          \* global, line 36
    series,             \* samples held by each TimeSeries, lines 46-51
    req,                \* series registered in the WriteRequest, line 43
    time, bat, res,     \* locals of loop()
    lcd,                \* what the display currently shows
    cycleLog,           \* history: steps performed in the current cycle
    cycleAdded,         \* history: samples accepted by addSample this cycle
    sentBatch,          \* history: batch handed to the last client.send()
    consecFails,        \* history: failed sends since the last success/boot
    lastGood,           \* history: last successful pressure read since boot
    reads,              \* history: outcome of this cycle's sensor updates
    prev,               \* history: temp/hum/pressure at the cycle's start
    startupFailed,      \* history: a begin() of setup() returned false
    lastRestart         \* history: the cycle's activity when ESP.restart() ran

vars == << pc, showDebug, temp, hum, pressure, upload_fail_count, series,
           req, time, bat, res, lcd, cycleLog, cycleAdded, sentBatch,
           consecFails, lastGood, reads, prev, startupFailed, lastRestart >>

\* ----------------------------------------------------------- pure helpers
EmptySeries == [ n \in SeriesNames |-> << >> ]
BlankLcd == [ readings |-> FALSE, wifi |-> << >>, upload |-> << >> ]
NoReads == [ qmp |-> FALSE, sht |-> FALSE ]
NoPrev == [ temp |-> 0, hum |-> 0, pressure |-> 0, count |-> 0 ]
NoRestart == [ site |-> "none" ]

\* pressure / 100 > lim on floats: the quotient exceeds lim exactly when the
\* dividend exceeds 100 * lim.
HpaAbove(p, lim) == p > lim * 100

\* The two tests of lines 132-133, in order; ESP.restart() does not return.
RestartRequired(p) == (p < LowLimit) \/ HpaAbove(p, HighLimit)

\* TimeSeries::addSample: stores the sample unless the batch is full.
addSample(s, name, t, v) ==
    IF Len(s[name]) >= SeriesCapacity
        THEN s
        ELSE [ s EXCEPT ![name] = Append(@, [tsMillis |-> t, val |-> v]) ]

\* History companion of addSample: the sample, when it was accepted.
accepted(s, log, name, t, v) ==
    IF Len(s[name]) >= SeriesCapacity
        THEN log
        ELSE [ log EXCEPT ![name] = Append(@, [tsMillis |-> t, val |-> v]) ]

\* TimeSeries::resetSamples.
resetSamples(s, name) == [ s EXCEPT ![name] = << >> ]

\* WriteRequest::addTimeSeries: registers the series unless the request is full.
addTimeSeries(r, name) ==
    IF Len(r) >= ReqCapacity THEN r ELSE Append(r, name)

\* String(int): decimal digits, most significant first, '-' for negatives.
DigitChar(d) == << "0", "1", "2", "3", "4", "5", "6", "7", "8", "9" >>[d + 1]

RECURSIVE NatDigits(_)
NatDigits(n) ==
    IF n < 10 THEN << DigitChar(n) >>
              ELSE Append(NatDigits(n \div 10), DigitChar(n % 10))

String(n) == IF n < 0 THEN << "-" >> \o NatDigits(-n) ELSE NatDigits(n)

\* ------------------------------------------------------------------ Init
Init ==
    /\ pc = "boot"
    /\ showDebug \in BOOLEAN
    /\ temp = 0 /\ hum = 0 /\ pressure = 0
    /\ upload_fail_count = 0
    /\ series = EmptySeries
    /\ req = << >>
    /\ time = 0 /\ bat = NoBat /\ res = NoResult
    /\ lcd = BlankLcd
    /\ cycleLog = << >>
    /\ cycleAdded = EmptySeries
    /\ sentBatch = EmptySeries
    /\ consecFails = 0
    /\ lastGood = NoRead
    /\ reads = NoReads
    /\ prev = NoPrev
    /\ startupFailed = FALSE
    /\ lastRestart = NoRestart

\* Variant of ColdStart: control goes back to the first line of setup() but
\* the globals keep their values.
WarmRestart ==
    /\ pc' = "boot"
    /\ req' = << >>
    /\ time' = 0 /\ bat' = NoBat /\ res' = NoResult
    /\ lcd' = BlankLcd
    /\ cycleLog' = << >>
    /\ cycleAdded' = EmptySeries
    /\ sentBatch' = EmptySeries
    /\ consecFails' = 0
    /\ lastGood' = NoRead
    /\ reads' = NoReads
    /\ prev' = NoPrev
    /\ startupFailed' = FALSE
    /\ lastRestart' = [ site |-> pc, log |-> cycleLog, buffered |-> series,
                        added |-> cycleAdded, res |-> res,
                        countChanged |-> upload_fail_count # prev.count,
                        hadState |-> /\ upload_fail_count # 0
                                     /\ temp # 0 /\ pressure # 0 ]
    /\ UNCHANGED << showDebug, temp, hum, pressure, upload_fail_count,
                    series >>

\* ESP.restart(): cold start; every global is constructed again and setup()
\* runs from its first line.  Only the build-time configuration survives.
ColdStart ==
    /\ pc' = "boot"
    /\ temp' = 0 /\ hum' = 0 /\ pressure' = 0
    /\ upload_fail_count' = 0
    /\ series' = EmptySeries
    /\ req' = << >>
    /\ time' = 0 /\ bat' = NoBat /\ res' = NoResult
    /\ lcd' = BlankLcd
    /\ cycleLog' = << >>
    /\ cycleAdded' = EmptySeries
    /\ sentBatch' = EmptySeries
    /\ consecFails' = 0
    /\ lastGood' = NoRead
    /\ reads' = NoReads
    /\ prev' = NoPrev
    /\ startupFailed' = FALSE
    /\ lastRestart' = [ site |-> pc, log |-> cycleLog, buffered |-> series,
                        added |-> cycleAdded, res |-> res,
                        countChanged |-> upload_fail_count # prev.count,
                        hadState |-> /\ upload_fail_count # 0
                                     /\ temp # 0 /\ pressure # 0 ]
    /\ UNCHANGED showDebug

\* ----------------------------------------------------------------- setup
\* Lines 53-89: display, sensors, transport.begin(); on failure while(true){}.
SetupTransport ==
    /\ pc = "boot"
    /\ \E ok \in BOOLEAN :
        /\ pc' = IF ok THEN "client" ELSE "halted"
        /\ startupFailed' = ~ok
    /\ UNCHANGED << showDebug, temp, hum, pressure, upload_fail_count, series,
                    req, time, bat, res, lcd, cycleLog, cycleAdded, sentBatch,
                    consecFails, lastGood, reads, prev,
                    lastRestart >>

\* Variant of SetupClient: a failed client.begin() is only logged and setup()
\* goes on to register the series.
SetupClientIgnoresFailure ==
    /\ pc = "client"
    /\ \E ok \in BOOLEAN :
        /\ pc' = "register"
        /\ startupFailed' = ~ok
    /\ UNCHANGED << showDebug, temp, hum, pressure, upload_fail_count, series,
                    req, time, bat, res, lcd, cycleLog, cycleAdded, sentBatch,
                    consecFails, lastGood, reads, prev, lastRestart >>

\* Lines 91-106: client configuration, client.begin(); on failure while(true){}.
SetupClient ==
    /\ pc = "client"
    /\ \E ok \in BOOLEAN :
        /\ pc' = IF ok THEN "register" ELSE "halted"
        /\ startupFailed' = ~ok
    /\ UNCHANGED << showDebug, temp, hum, pressure, upload_fail_count, series,
                    req, time, bat, res, lcd, cycleLog, cycleAdded, sentBatch,
                    consecFails, lastGood, reads, prev,
                    lastRestart >>

\* Lines 109-114: the six req.addTimeSeries calls; setup() returns to loop().
RegisterSeries ==
    /\ pc = "register"
    /\ req' = addTimeSeries(addTimeSeries(addTimeSeries(addTimeSeries(
                addTimeSeries(addTimeSeries(req,
                    "m5stick_temp"), "m5stick_hum"), "m5stick_pressure"),
                    "m5stick_bat_volt"), "m5stick_bat_current"),
                    "m5stick_bat_level")
    /\ pc' = "loop"
    /\ UNCHANGED << showDebug, temp, hum, pressure, upload_fail_count, series,
                    time, bat, res, lcd, cycleLog, cycleAdded, sentBatch,
                    consecFails, lastGood, reads, prev, startupFailed,
                    lastRestart >>

\* Lines 88 and 105: while (true) {}; the thread spins and changes nothing.
Halted ==
    /\ pc = "halted"
    /\ UNCHANGED vars

\* ------------------------------------------------------------------ loop
\* Lines 118-120: the cycle's single timestamp.
LoopStart ==
    /\ pc = "loop"
    /\ \E t \in Times : time' = t
    /\ cycleLog' = << "time" >>
    /\ cycleAdded' = EmptySeries
    /\ reads' = NoReads
    /\ prev' = [ temp |-> temp, hum |-> hum, pressure |-> pressure,
                 count |-> upload_fail_count ]
    /\ pc' = "qmp"
    /\ UNCHANGED << showDebug, temp, hum, pressure, upload_fail_count, series,
                    req, bat, res, lcd, sentBatch, consecFails, lastGood,
                    startupFailed,
                    lastRestart >>

\* Lines 123-125: pressure is overwritten only when the update succeeds.
ReadPressure ==
    /\ pc = "qmp"
    /\ \E ok \in BOOLEAN, p \in PressureReadings :
        /\ pressure' = IF ok THEN p ELSE pressure
        /\ lastGood' = IF ok THEN p ELSE lastGood
        /\ reads' = [ reads EXCEPT !.qmp = ok ]
    /\ cycleLog' = Append(cycleLog, "qmp")
    /\ pc' = "sht"
    /\ UNCHANGED << showDebug, temp, hum, upload_fail_count, series, req,
                    time, bat, res, lcd, cycleAdded, sentBatch, consecFails,
                    prev, startupFailed,
                    lastRestart >>

\* Variant of ReadSht: a failed update leaves temp and hum as they were.
ReadShtKeepsStale ==
    /\ pc = "sht"
    /\ \E ok \in BOOLEAN, t \in TempReadings, h \in HumReadings :
        /\ temp' = IF ok THEN t ELSE temp
        /\ hum' = IF ok THEN h ELSE hum
        /\ reads' = [ reads EXCEPT !.sht = ok ]
    /\ cycleLog' = Append(cycleLog, "sht")
    /\ pc' = "check"
    /\ UNCHANGED << showDebug, pressure, upload_fail_count, series, req,
                    time, bat, res, lcd, cycleAdded, sentBatch, consecFails,
                    lastGood, prev, startupFailed, lastRestart >>

\* Variant of ReadSht: the temperature sample is appended as soon as it is
\* read, before the pressure has been checked.
ReadShtAppendsEarly ==
    /\ pc = "sht"
    /\ \E ok \in BOOLEAN, t \in TempReadings, h \in HumReadings :
        /\ temp' = IF ok THEN t ELSE 0
        /\ hum' = IF ok THEN h ELSE 0
        /\ reads' = [ reads EXCEPT !.sht = ok ]
    /\ series' = addSample(series, "m5stick_temp", time, temp')
    /\ cycleAdded' = accepted(series, cycleAdded, "m5stick_temp", time, temp')
    /\ cycleLog' = Append(cycleLog, "sht")
    /\ pc' = "check"
    /\ UNCHANGED << showDebug, pressure, upload_fail_count, req,
                    time, bat, res, lcd, sentBatch, consecFails,
                    lastGood, prev, startupFailed, lastRestart >>

\* Lines 126-131: temperature and humidity, zero on a failed update.
ReadSht ==
    /\ pc = "sht"
    /\ \E ok \in BOOLEAN, t \in TempReadings, h \in HumReadings :
        /\ temp' = IF ok THEN t ELSE 0
        /\ hum' = IF ok THEN h ELSE 0
        /\ reads' = [ reads EXCEPT !.sht = ok ]
    /\ cycleLog' = Append(cycleLog, "sht")
    /\ pc' = "check"
    /\ UNCHANGED << showDebug, pressure, upload_fail_count, series, req,
                    time, bat, res, lcd, cycleAdded, sentBatch, consecFails,
                    lastGood, prev, startupFailed,
                    lastRestart >>

\* Variant of AnomalyCheck: zero temperature and humidity also count as an
\* invalid reading.
AnomalyCheckRestartsOnZeroSht ==
    /\ pc = "check"
    /\ IF RestartRequired(pressure) \/ (temp = 0 /\ hum = 0)
         THEN ColdStart
         ELSE /\ pc' = "power"
              /\ cycleLog' = Append(cycleLog, "check")
              /\ UNCHANGED << showDebug, temp, hum, pressure,
                              upload_fail_count, series, req, time, bat, res,
                              lcd, cycleAdded, sentBatch, consecFails,
                              lastGood, reads, prev, startupFailed,
                              lastRestart >>

\* Variant of AnomalyCheck: the test of line 133 is missing.
AnomalyCheckLowOnly ==
    /\ pc = "check"
    /\ IF pressure < LowLimit
         THEN ColdStart
         ELSE /\ pc' = "power"
              /\ cycleLog' = Append(cycleLog, "check")
              /\ UNCHANGED << showDebug, temp, hum, pressure,
                              upload_fail_count, series, req, time, bat, res,
                              lcd, cycleAdded, sentBatch, consecFails,
                              lastGood, reads, prev, startupFailed,
                              lastRestart >>

\* Variant of AnomalyCheck: the pressure is tested only in a cycle whose
\* qmp6988.update() succeeded.
AnomalyCheckOnlyFreshReads ==
    /\ pc = "check"
    /\ IF reads.qmp /\ RestartRequired(pressure)
         THEN ColdStart
         ELSE /\ pc' = "power"
              /\ cycleLog' = Append(cycleLog, "check")
              /\ UNCHANGED << showDebug, temp, hum, pressure,
                              upload_fail_count, series, req, time, bat, res,
                              lcd, cycleAdded, sentBatch, consecFails,
                              lastGood, reads, prev, startupFailed,
                              lastRestart >>

\* Lines 132-133: restart on an implausible pressure, else go on.
AnomalyCheck ==
    /\ pc = "check"
    /\ IF RestartRequired(pressure)
         THEN ColdStart
         ELSE /\ pc' = "power"
              /\ cycleLog' = Append(cycleLog, "check")
              /\ UNCHANGED << showDebug, temp, hum, pressure,
                              upload_fail_count, series, req, time, bat, res,
                              lcd, cycleAdded, sentBatch, consecFails,
                              lastGood, reads, prev, startupFailed,
                    lastRestart >>

\* Lines 134-144: serial print of the readings, the three battery reads.
ReadPower ==
    /\ pc = "power"
    /\ \E b \in BatReadings : bat' = b
    /\ cycleLog' = cycleLog \o << "print", "power" >>
    /\ pc' = "append"
    /\ UNCHANGED << showDebug, temp, hum, pressure, upload_fail_count, series,
                    req, time, res, lcd, cycleAdded, sentBatch, consecFails,
                    lastGood, reads, prev, startupFailed,
                    lastRestart >>

\* The (series, value) pairs of lines 147-153, in program order.
SampleValues ==
    << << "m5stick_temp", temp >>, << "m5stick_hum", hum >>,
       << "m5stick_pressure", pressure >>,
       << "m5stick_bat_volt", bat.volt >>,
       << "m5stick_bat_current", bat.current >>,
       << "m5stick_bat_level", bat.level >> >>

RECURSIVE addAll(_, _, _)
addAll(s, t, i) ==
    IF i > Len(SampleValues) THEN s
    ELSE addAll(addSample(s, SampleValues[i][1], t, SampleValues[i][2]),
                t, i + 1)

RECURSIVE acceptedAll(_, _, _, _)
acceptedAll(s, log, t, i) ==
    IF i > Len(SampleValues) THEN log
    ELSE acceptedAll(
            addSample(s, SampleValues[i][1], t, SampleValues[i][2]),
            accepted(s, log, SampleValues[i][1], t, SampleValues[i][2]),
            t, i + 1)

\* Variant of AddSamples: the battery samples carry a timestamp of their own.
AddSamplesOwnTimestamps ==
    /\ pc = "append"
    /\ LET s3 == addSample(addSample(addSample(series,
                    "m5stick_temp", time, temp), "m5stick_hum", time, hum),
                    "m5stick_pressure", time, pressure)
           t2 == time + 1
       IN  /\ series' = addSample(addSample(addSample(s3,
                    "m5stick_bat_volt", t2, bat.volt),
                    "m5stick_bat_current", t2, bat.current),
                    "m5stick_bat_level", t2, bat.level)
           /\ cycleAdded' = [ n \in SeriesNames |->
                    IF Len(series[n]) >= SeriesCapacity
                        THEN cycleAdded[n]
                        ELSE cycleAdded[n] \o series'[n] ]
    /\ cycleLog' = Append(cycleLog, "append")
    /\ pc' = "send"
    /\ UNCHANGED << showDebug, temp, hum, pressure, upload_fail_count, req,
                    time, bat, res, lcd, sentBatch, consecFails, lastGood,
                    reads, prev, startupFailed, lastRestart >>

\* Lines 147-153: six addSample calls, all with the local `time`.
AddSamples ==
    /\ pc = "append"
    /\ series' = addAll(series, time, 1)
    /\ cycleAdded' = acceptedAll(series, cycleAdded, time, 1)
    /\ cycleLog' = Append(cycleLog, "append")
    /\ pc' = "send"
    /\ UNCHANGED << showDebug, temp, hum, pressure, upload_fail_count, req,
                    time, bat, res, lcd, sentBatch, consecFails, lastGood,
                    reads, prev, startupFailed,
                    lastRestart >>

\* Line 156: client.send(req); the batch is what the registered series hold.
Send ==
    /\ pc = "send"
    /\ \E r \in Results :
        /\ (r # 0) => consecFails < MaxFail
        /\ res' = r
        /\ consecFails' = IF r = 0 THEN 0 ELSE consecFails + 1
    /\ sentBatch' = [ n \in SeriesNames |->
                        IF \E i \in 1..Len(req) : req[i] = n
                            THEN series[n] ELSE << >> ]
    /\ cycleLog' = Append(cycleLog, "send")
    /\ pc' = "reset"
    /\ UNCHANGED << showDebug, temp, hum, pressure, upload_fail_count, series,
                    req, time, bat, lcd, cycleAdded, lastGood, reads, prev,
                    startupFailed,
                    lastRestart >>

\* Variant of ResetSamples: the battery-level series is not reset.
ResetSamplesMissesOne ==
    /\ pc = "reset"
    /\ series' = resetSamples(resetSamples(resetSamples(
                   resetSamples(resetSamples(series,
                       "m5stick_temp"), "m5stick_hum"), "m5stick_pressure"),
                       "m5stick_bat_volt"), "m5stick_bat_current")
    /\ cycleLog' = Append(cycleLog, "reset")
    /\ pc' = "display"
    /\ UNCHANGED << showDebug, temp, hum, pressure, upload_fail_count, req,
                    time, bat, res, lcd, cycleAdded, sentBatch, consecFails,
                    lastGood, reads, prev, startupFailed, lastRestart >>

\* Variant of ResetSamples: the series are kept for a retry when the send
\* failed.
ResetSamplesOnSuccess ==
    /\ pc = "reset"
    /\ series' = IF res = 0 THEN EmptySeries ELSE series
    /\ cycleLog' = Append(cycleLog, "reset")
    /\ pc' = "display"
    /\ UNCHANGED << showDebug, temp, hum, pressure, upload_fail_count, req,
                    time, bat, res, lcd, cycleAdded, sentBatch, consecFails,
                    lastGood, reads, prev, startupFailed, lastRestart >>

\* Lines 157-162: resetSamples on each of the six series, whatever res is.
ResetSamples ==
    /\ pc = "reset"
    /\ series' = resetSamples(resetSamples(resetSamples(resetSamples(
                   resetSamples(resetSamples(series,
                       "m5stick_temp"), "m5stick_hum"), "m5stick_pressure"),
                       "m5stick_bat_volt"), "m5stick_bat_current"),
                       "m5stick_bat_level")
    /\ cycleLog' = Append(cycleLog, "reset")
    /\ pc' = "display"
    /\ UNCHANGED << showDebug, temp, hum, pressure, upload_fail_count, req,
                    time, bat, res, lcd, cycleAdded, sentBatch, consecFails,
                    lastGood, reads, prev, startupFailed,
                    lastRestart >>

\* Lines 164-172: the display is cleared and the readings are drawn.
Display ==
    /\ pc = "display"
    /\ lcd' = [ BlankLcd EXCEPT !.readings = TRUE ]
    /\ cycleLog' = Append(cycleLog, "readings")
    /\ pc' = "debug"
    /\ UNCHANGED << showDebug, temp, hum, pressure, upload_fail_count, series,
                    req, time, bat, res, cycleAdded, sentBatch, consecFails,
                    lastGood, reads, prev, startupFailed,
                    lastRestart >>

\* The text drawn by lines 176-204 for a given link state and counter value.
DebugLcd(connected, count) ==
    [ lcd EXCEPT
        !.wifi = IF connected THEN << "Connected" >>
                              ELSE << "Not connected!" >>,
        !.upload = IF res = 0 THEN << "complete" >>
                              ELSE << "failed: " >> \o String(count) ]

\* Variant of DebugInfo: the text is drawn from the counter before it is
\* incremented.
DebugInfoDrawsOldCount ==
    /\ pc = "debug"
    /\ IF showDebug
         THEN /\ upload_fail_count' =
                    IF res = 0 THEN 0 ELSE upload_fail_count + 1
              /\ \E connected \in BOOLEAN :
                    lcd' = DebugLcd(connected, upload_fail_count)
              /\ cycleLog' = cycleLog \o << "link", "upload" >>
         ELSE UNCHANGED << upload_fail_count, lcd, cycleLog >>
    /\ pc' = "delay"
    /\ UNCHANGED << showDebug, temp, hum, pressure, series, req, time, bat,
                    res, cycleAdded, sentBatch, consecFails, lastGood, reads,
                    prev, startupFailed, lastRestart >>

\* Variant of DebugInfo: the block runs whatever the configuration says.
DebugInfoUngated ==
    /\ pc = "debug"
    /\ upload_fail_count' = IF res = 0 THEN 0 ELSE upload_fail_count + 1
    /\ \E connected \in BOOLEAN :
          lcd' = DebugLcd(connected, upload_fail_count')
    /\ cycleLog' = cycleLog \o << "link", "upload" >>
    /\ pc' = "delay"
    /\ UNCHANGED << showDebug, temp, hum, pressure, series, req, time, bat,
                    res, cycleAdded, sentBatch, consecFails, lastGood, reads,
                    prev, startupFailed, lastRestart >>

\* Variant of DebugInfo: the controller is restarted after two failed sends
\* in a row.
DebugInfoRestartsOnFailures ==
    /\ pc = "debug"
    /\ IF res # 0 /\ consecFails >= 2
         THEN ColdStart
         ELSE /\ IF showDebug
                   THEN /\ upload_fail_count' =
                              IF res = 0 THEN 0 ELSE upload_fail_count + 1
                        /\ \E connected \in BOOLEAN :
                              lcd' = DebugLcd(connected, upload_fail_count')
                        /\ cycleLog' = cycleLog \o << "link", "upload" >>
                   ELSE UNCHANGED << upload_fail_count, lcd, cycleLog >>
              /\ pc' = "delay"
              /\ UNCHANGED << showDebug, temp, hum, pressure, series, req,
                              time, bat, res, cycleAdded, sentBatch,
                              consecFails, lastGood, reads, prev,
                              startupFailed, lastRestart >>

\* Lines 175-205: link status, failure counter and upload status, all inside
\* the LCD_SHOW_DEBUG_INFO test.
DebugInfo ==
    /\ pc = "debug"
    /\ IF showDebug
         THEN /\ upload_fail_count' =
                    IF res = 0 THEN 0 ELSE upload_fail_count + 1
              /\ \E connected \in BOOLEAN :
                    lcd' = DebugLcd(connected, upload_fail_count')
              /\ cycleLog' = cycleLog \o << "link", "upload" >>
         ELSE UNCHANGED << upload_fail_count, lcd, cycleLog >>
    /\ pc' = "delay"
    /\ UNCHANGED << showDebug, temp, hum, pressure, series, req, time, bat,
                    res, cycleAdded, sentBatch, consecFails, lastGood, reads,
                    prev, startupFailed, lastRestart >>

\* Variant of Delay: after a failed send the loop gives up and spins.
DelayGivesUpAfterFailure ==
    /\ pc = "delay"
    /\ time' = 0 /\ bat' = NoBat /\ res' = NoResult
    /\ pc' = IF res # 0 THEN "halted" ELSE "loop"
    /\ UNCHANGED << showDebug, temp, hum, pressure, upload_fail_count, series,
                    req, lcd, cycleLog, cycleAdded, sentBatch, consecFails,
                    lastGood, reads, prev, startupFailed, lastRestart >>

\* Lines 207-208: delay(5000); loop() returns and its locals are gone.
Delay ==
    /\ pc = "delay"
    /\ time' = 0 /\ bat' = NoBat /\ res' = NoResult
    /\ pc' = "loop"
    /\ UNCHANGED << showDebug, temp, hum, pressure, upload_fail_count, series,
                    req, lcd, cycleLog, cycleAdded, sentBatch, consecFails,
                    lastGood, reads, prev, startupFailed,
                    lastRestart >>

Next ==
    \/ SetupTransport
    \/ SetupClient
    \/ RegisterSeries
    \/ Halted
    \/ LoopStart
    \/ ReadPressure
    \/ ReadSht
    \/ AnomalyCheck
    \/ ReadPower
    \/ AddSamples
    \/ Send
    \/ ResetSamples
    \/ Display
    \/ DebugInfo
    \/ Delay

Spec == Init /\ [][Next]_vars

\* The single thread of control keeps running: every call of setup() and
\* loop() returns (or restarts) and the Arduino core calls loop() again.
LiveSpec == Init /\ [][Next]_vars /\ WF_vars(Next)

TypeOK ==
    /\ pc \in { "boot", "client", "register", "halted", "loop", "qmp", "sht",
                "check", "power", "append", "send", "reset", "display",
                "debug", "delay" }
    /\ upload_fail_count \in 0..MaxFail
    /\ res \in Results \cup { NoResult }

\* ------------------------------------------------------------- properties
Count(log, step) == Cardinality({ i \in 1..Len(log) : log[i] = step })

\* pressure / 100 < lim on floats.
HpaBelow(p, lim) == p < lim * 100

\* C1: whenever a cycle stands at the anomaly check holding pressure p, the
\* restart is invoked if and only if p/100 < 950 or p/100 > 1200.
C1_RestartIffOutsideHpaRange ==
    [][ pc = "check" =>
          ( (pc' = "boot") <=>
            (HpaBelow(pressure, 950) \/ HpaAbove(pressure, 1200)) ) ]_vars

\* C2: in every configuration, debug display enabled or not, at the end of
\* a cycle the failure counter is 0 after a successful send and N after the
\* N-th consecutive failed send.
C2_CounterTracksSendsInEveryConfig ==
    pc = "delay" =>
        /\ (res = 0) => upload_fail_count = 0
        /\ (res # 0) => upload_fail_count = consecFails

\* C3: after the send attempt of a cycle, whatever its result, every series
\* is empty before the next cycle starts and the registered series are the
\* six of startup, in registration order.
C3_SeriesEmptyAndRegistrationFixed ==
    pc \in { "display", "debug", "delay", "loop" } =>
        /\ \A n \in SeriesNames : series[n] = << >>
        /\ req = SeriesOrder

C3_Witness ==
    /\ pc = "delay" /\ res # 0
    /\ \A n \in SeriesNames : Len(sentBatch[n]) = 1 /\ series[n] = << >>

\* C4: a cycle that passed the anomaly check has, before the send, appended
\* exactly one sample to each of the six series, all with the timestamp
\* captured at the start of the cycle.
C4_OneSamplePerSeriesOneTimestamp ==
    pc = "send" =>
        \A n \in SeriesNames :
            /\ Len(cycleAdded[n]) = 1
            /\ cycleAdded[n][1].tsMillis = time
            /\ series[n] = cycleAdded[n]

C4_Witness ==
    /\ pc = "send" /\ consecFails > 0 /\ time = MaxTime
    /\ \A n \in SeriesNames : Len(series[n]) = 1

\* C5: when the humidity/temperature read fails the temperature and humidity
\* samples are 0; when the pressure read fails the pressure checked and
\* appended is the one of the last successful pressure read, whatever the
\* humidity/temperature read did.
C5_ZeroFillAndStalePressure ==
    /\ (pc \in { "check", "power", "append", "send" } /\ ~reads.sht) =>
            temp = 0 /\ hum = 0
    /\ (pc \in { "check", "power", "append", "send" } /\ ~reads.qmp) =>
            /\ pressure = prev.pressure
            /\ lastGood # NoRead => pressure = lastGood
    /\ pc = "send" =>
            /\ ~reads.sht => /\ series["m5stick_temp"][1].val = 0
                             /\ series["m5stick_hum"][1].val = 0
            /\ ~reads.qmp => series["m5stick_pressure"][1].val = lastGood

C5_Witness ==
    /\ pc = "send" /\ ~reads.sht /\ ~reads.qmp
    /\ prev.temp # 0 /\ prev.hum # 0
    /\ series["m5stick_temp"][1].val = 0
    /\ series["m5stick_pressure"][1].val = lastGood

\* What a cycle has done when it reaches the anomaly check.
LogAtCheck == << "time", "qmp", "sht" >>

\* What a cycle has done when it reaches the debug block of line 175.
LogBeforeDebug ==
    << "time", "qmp", "sht", "check", "print", "power", "append", "send",
       "reset", "readings" >>

\* C6: a cycle that invokes the restart ends there: up to the restart it has
\* appended no sample, attempted no send, rendered no reading or status and
\* left the failure counter alone.
C6_RestartEndsCycleUntouched ==
    lastRestart # NoRestart =>
        /\ lastRestart.log = LogAtCheck
        /\ lastRestart.added = EmptySeries
        /\ lastRestart.buffered = EmptySeries
        /\ lastRestart.res = NoResult
        /\ ~lastRestart.countChanged

C6_Witness ==
    /\ lastRestart # NoRestart
    /\ lastRestart.site = "check"
    /\ pc = "boot"

\* C7: a cycle makes at most one send attempt and the restart is invoked
\* only from the pressure anomaly check, however many sends have failed.
C7_FailuresNeverRestartNorRetry ==
    /\ Count(cycleLog, "send") <= 1
    /\ lastRestart # NoRestart => lastRestart.site = "check"
    /\ (pc \in { "reset", "display", "debug", "delay" } /\ res # 0) =>
            Count(cycleLog, "send") = 1

C7_Witness ==
    /\ pc = "qmp" /\ consecFails = MaxFail
    /\ lastRestart = NoRestart

\* C8: for either value of the debug flag a cycle that passed the anomaly
\* check does the same reads, the six appends, the send and the clear; with
\* the flag disabled no link status and no upload status is drawn.
C8_FlagGatesOnlyStatus ==
    pc = "delay" =>
        /\ SubSeq(cycleLog, 1, Len(LogBeforeDebug)) = LogBeforeDebug
        /\ \A n \in SeriesNames :
                Len(cycleAdded[n]) = 1 /\ sentBatch[n] = cycleAdded[n]
                    /\ series[n] = << >>
        /\ ~showDebug =>
                /\ cycleLog = LogBeforeDebug
                /\ lcd.wifi = << >> /\ lcd.upload = << >>
        /\ showDebug =>
                /\ cycleLog = LogBeforeDebug \o << "link", "upload" >>
                /\ lcd.wifi # << >> /\ lcd.upload # << >>

C8_Witness ==
    /\ pc = "delay" /\ ~showDebug /\ res # 0
    /\ lcd.readings /\ lcd.upload = << >>

\* C9: once transport.begin() or client.begin() has failed the process is
\* halted for good: no cycle is entered, nothing is read or sent, no series
\* is registered, no restart happens and no step changes anything.
C9_StartupFailureHaltsForever ==
    /\ [](startupFailed =>
            /\ pc = "halted"
            /\ cycleLog = << >> /\ sentBatch = EmptySeries /\ req = << >>)
    /\ [][pc = "halted" => UNCHANGED vars]_vars

C9_Witness ==
    /\ pc = "halted" /\ startupFailed
    /\ lastRestart # NoRestart

\* C10: the batch handed to the send is exactly what this cycle appended,
\* stamped with this cycle's timestamp; nothing of an earlier cycle, sent or
\* not, is in it.
C10_NoSampleReplayed ==
    pc \in { "reset", "display", "debug", "delay" } =>
        \A n \in SeriesNames :
            /\ sentBatch[n] = cycleAdded[n]
            /\ \A i \in 1..Len(sentBatch[n]) :
                    sentBatch[n][i].tsMillis = time

C10_Witness ==
    /\ pc = "reset" /\ consecFails >= 2 /\ res # 0
    /\ \A n \in SeriesNames : Len(sentBatch[n]) = 1

\* C11: with the debug display enabled, a cycle that reaches the status step
\* shows "complete" exactly when its send returned 0 and otherwise
\* "failed: k", k being the failure counter after this cycle's increment;
\* the first, second and third failure in a row show 1, 2 and 3.
C11_UploadStatusText ==
    (pc = "delay" /\ showDebug) =>
        /\ (res = 0) <=> (lcd.upload = << "complete" >>)
        /\ (res # 0) =>
                /\ Len(lcd.upload) >= 2
                /\ lcd.upload[1] = "failed: "
                /\ SubSeq(lcd.upload, 2, Len(lcd.upload))
                        = String(upload_fail_count)
                /\ upload_fail_count = prev.count + 1
        /\ (res # 0 /\ consecFails = 1) => lcd.upload = << "failed: ", "1" >>
        /\ (res # 0 /\ consecFails = 2) => lcd.upload = << "failed: ", "2" >>
        /\ (res # 0 /\ consecFails = 3) => lcd.upload = << "failed: ", "3" >>

C11_Witness ==
    /\ pc = "delay" /\ showDebug /\ res # 0 /\ consecFails = 3
    /\ lcd.upload = << "failed: ", "3" >>

\* C12: a restart is a cold start: right after it the failure counter is 0,
\* every series is empty, temp, hum and pressure are back to 0 and nothing is
\* registered; a cycle runs only after setup() has registered the series
\* again.
C12_RestartIsColdStart ==
    /\ (pc = "boot" /\ lastRestart # NoRestart) =>
            /\ upload_fail_count = 0
            /\ series = EmptySeries
            /\ temp = 0 /\ hum = 0 /\ pressure = 0
            /\ req = << >>
    /\ cycleLog # << >> => req = SeriesOrder

C12_Witness ==
    /\ pc = "boot" /\ lastRestart # NoRestart
    /\ lastRestart.hadState
    /\ upload_fail_count = 0 /\ temp = 0 /\ pressure = 0

\* C13: the cycle has no terminal state.  Once startup has succeeded, a cycle
\* that meets no pressure anomaly runs its steps in the order collect, send,
\* reset, then the delay, and a new cycle follows: unless startup failed, a
\* send is attempted (or the anomaly check restarts the controller) again and
\* again, also after failed sends.
C13_CycleRepeatsForever ==
    /\ [](pc = "delay" =>
            SubSeq(cycleLog, 1, Len(LogBeforeDebug)) = LogBeforeDebug)
    /\ []<>(pc = "send" \/ pc = "boot" \/ startupFailed)

C13_Witness ==
    /\ pc = "send" /\ consecFails = MaxFail
    /\ lastRestart = NoRestart

\* The batch a cycle is expected to send, given what it read.
ExpectedBatch ==
    [ n \in SeriesNames |->
        << [ tsMillis |-> time,
             val |-> CASE n = "m5stick_temp" -> temp
                       [] n = "m5stick_hum" -> hum
                       [] n = "m5stick_pressure" -> pressure
                       [] n = "m5stick_bat_volt" -> bat.volt
                       [] n = "m5stick_bat_current" -> bat.current
                       [] n = "m5stick_bat_level" -> bat.level ] >> ]

\* C14: a failed humidity/temperature read is not an error: by itself it
\* does not restart the controller, the cycle runs the same steps and sends
\* once, the batch differs only by the zero temperature and humidity, and the
\* failure counter changes only as the send result says.
C14_ShtFailureNotSurfaced ==
    /\ []( (pc = "delay" /\ ~reads.sht) =>
            /\ SubSeq(cycleLog, 1, Len(LogBeforeDebug)) = LogBeforeDebug
            /\ Count(cycleLog, "send") = 1
            /\ temp = 0 /\ hum = 0
            /\ sentBatch = ExpectedBatch
            /\ upload_fail_count =
                    IF ~showDebug THEN prev.count
                    ELSE IF res = 0 THEN 0 ELSE prev.count + 1 )
    /\ [][ (pc = "check" /\ ~reads.sht) =>
                ((pc' = "boot") <=> RestartRequired(pressure)) ]_vars

C14_Witness ==
    /\ pc = "delay" /\ ~reads.sht /\ reads.qmp /\ res = 0
    /\ sentBatch["m5stick_temp"][1].val = 0
    /\ prev.temp # 0

\* C15: a series never holds more than the one sample it has room for, and
\* it holds one exactly between the appends and the reset of a cycle.
C15_AtMostOneSamplePerSeries ==
    \A n \in SeriesNames :
        /\ Len(series[n]) <= SeriesCapacity
        /\ (Len(series[n]) = 1) <=> (pc \in { "send", "reset" })

C15_Witness ==
    /\ pc = "reset" /\ res # 0 /\ consecFails >= 2
    /\ \A n \in SeriesNames : Len(series[n]) = 1

\* C16: a pressure sample that is buffered or sent is the value the anomaly
\* check of the same cycle let through, a stale value after a failed read
\* included; a value the check rejects is never buffered or sent.
C16_BufferedPressurePassedCheck ==
    /\ \A i \in 1..Len(series["m5stick_pressure"]) :
            /\ ~RestartRequired(series["m5stick_pressure"][i].val)
            /\ series["m5stick_pressure"][i].val = pressure
            /\ Count(cycleLog, "check") = 1
    /\ \A i \in 1..Len(sentBatch["m5stick_pressure"]) :
            /\ ~RestartRequired(sentBatch["m5stick_pressure"][i].val)
            /\ pc \in { "reset", "display", "debug", "delay" } =>
                    sentBatch["m5stick_pressure"][i].val = pressure

C16_Witness ==
    /\ pc = "reset" /\ ~reads.qmp
    /\ sentBatch["m5stick_pressure"][1].val = lastGood
    /\ lastGood = 120000

\* C17: as long as no pressure read has succeeded since the cold start the
\* remembered pressure is 0, the cycle restarts at the anomaly check and
\* nothing is appended or sent; a device whose first pressure read fails
\* after every boot therefore never sends.
C17_NoGoodReadMeansRestart ==
    /\ []( lastGood = NoRead =>
            /\ pressure = 0
            /\ pc \in { "boot", "client", "register", "halted", "loop",
                        "qmp", "sht", "check" }
            /\ series = EmptySeries /\ cycleAdded = EmptySeries
            /\ sentBatch = EmptySeries
            /\ Count(cycleLog, "send") = 0 )
    /\ [][ (pc = "check" /\ lastGood = NoRead) => pc' = "boot" ]_vars

C17_Witness ==
    /\ pc = "check" /\ lastGood = NoRead /\ ~reads.qmp
    /\ lastRestart # NoRestart

====
